---------------------------- MODULE Spec2Model ----------------------------
(***************************************************************************)
(* A model of the record-processing pipeline of ex2/nexus_pipeline.py:     *)
(* the shape check dict_follows_prototype, the three stages, the three     *)
(* adapters that parse raw input and drive a record through their stage    *)
(* list, and the manager that registers pipelines; of the data processors  *)
(* of ex0/stream_processor.py; and of the sensor and transaction streams   *)
(* of ex1/data_stream.py.                                                  *)
(*                                                                         *)
(* Python values are tagged records (each tag has its own field name):     *)
(*   None   [tag |-> "none"]                                               *)
(*   bool   [tag |-> "bool",  b |-> TRUE]                                  *)
(*   int    [tag |-> "int",   n |-> 3]                                     *)
(*   float  [tag |-> "float", num |-> 47, den |-> 2]   (a reduced          *)
(*          fraction stands for the double nearest to it)                  *)
(*   str    [tag |-> "str",   s |-> <<"a", "b">>]  (one character each)    *)
(*   bytes  [tag |-> "bytes", bs |-> <<"a", "b">>]                         *)
(*   list   [tag |-> "list",  l |-> <<v1, v2>>]                            *)
(*   dict   [tag |-> "dict",  items |-> << <<k1, v1>>, <<k2, v2>> >>]      *)
(*          (insertion ordered, as Python's dict is)                       *)
(*   an object of a class of the module: [tag |-> "obj", cls |-> "..."]    *)
(* The character "deg" stands for the degree sign, "xFF" for a byte that   *)
(* is not valid UTF-8 and "nl" for the line feed.                          *)
(***************************************************************************)
EXTENDS Integers, Sequences, FiniteSets, TLC

VARIABLES kind, stages, pipelines, stream, last

vars == <<kind, stages, pipelines, stream, last>>

---------------------------------------------------------------------------
(* Bounds of the model *)

MaxStages == 3

MaxSamples == 2

MaxPipelines == 2

MaxText == 2

MaxCsvText == 3

MaxExtra == 1

MaxNums == 2

MaxTail == 3

MaxBatch == 2

MaxReadings == 2

ReprDigits == 16

---------------------------------------------------------------------------
(* Python values *)

None == [tag |-> "none"]

PyBool(x) == [tag |-> "bool", b |-> x]

PyInt(x) == [tag |-> "int", n |-> x]

RECURSIVE Gcd(_, _)
Gcd(a, b) == IF b = 0 THEN a ELSE Gcd(b, a % b)

Abs(x) == IF x < 0 THEN -x ELSE x

PyFloat(p, q) ==
    LET g == Gcd(Abs(p), q)
    IN  IF p = 0 THEN [tag |-> "float", num |-> 0, den |-> 1]
        ELSE [tag |-> "float", num |-> p \div g, den |-> q \div g]

Str(chars) == [tag |-> "str", s |-> chars]

Bytes(chars) == [tag |-> "bytes", bs |-> chars]

List(elems) == [tag |-> "list", l |-> elems]

Dict(kvs) == [tag |-> "dict", items |-> kvs]

True == PyBool(TRUE)

EmptyDict == Dict(<<>>)

EmptyStr == Str(<<>>)

(* The string literals of the source *)
k_entry == Str(<<"e", "n", "t", "r", "y">>)

k_type == Str(<<"t", "y", "p", "e">>)

k_valid == Str(<<"v", "a", "l", "i", "d">>)

k_metadata == Str(<<"m", "e", "t", "a", "d", "a", "t", "a">>)

k_amount == Str(<<"a", "m", "o", "u", "n", "t">>)

k_sensor == Str(<<"s", "e", "n", "s", "o", "r">>)

k_value == Str(<<"v", "a", "l", "u", "e">>)

k_unit == Str(<<"u", "n", "i", "t">>)

s_temp == Str(<<"t", "e", "m", "p">>)

s_json == Str(<<"j", "s", "o", "n">>)

s_csv == Str(<<"c", "s", "v">>)

s_stream == Str(<<"s", "t", "r", "e", "a", "m">>)

s_C == Str(<<"C">>)

s_degC == Str(<<"deg", "C">>)

(* dict operations: key in d, d[key], d[key] = v, len(d) *)
HasKey(d, key) == \E i \in 1..Len(d.items) : d.items[i][1] = key

GetItem(d, key) ==
    d.items[CHOOSE i \in 1..Len(d.items) : d.items[i][1] = key][2]

SetItem(d, key, v) ==
    IF HasKey(d, key)
    THEN Dict([i \in 1..Len(d.items) |->
                 IF d.items[i][1] = key THEN <<key, v>> ELSE d.items[i]])
    ELSE Dict(Append(d.items, <<key, v>>))

DictLen(d) == Len(d.items)

DictKeys(d) == {d.items[i][1] : i \in 1..Len(d.items)}

(* isinstance(x, t): bool is a subclass of int *)
IsInstance(x, t) ==
    IF t = "int" THEN x.tag \in {"int", "bool"} ELSE x.tag = t

(* x == y for the comparisons the source makes (against a str literal) *)
PyEq(x, y) == x.tag = y.tag /\ x = y

---------------------------------------------------------------------------
(* str() and repr() *)

DigitChar(d) == <<"0", "1", "2", "3", "4", "5", "6", "7", "8", "9">>[d + 1]

RECURSIVE Digits(_)
Digits(n) ==
    IF n < 10 THEN <<DigitChar(n)>>
    ELSE Digits(n \div 10) \o <<DigitChar(n % 10)>>

StrInt(n) == IF n < 0 THEN <<"-">> \o Digits(-n) ELSE Digits(n)

RECURSIVE FracDigits(_, _, _)
FracDigits(r, den, k) ==
    IF r = 0 \/ k = 0 THEN <<>>
    ELSE <<DigitChar((r * 10) \div den)>>
         \o FracDigits((r * 10) % den, den, k - 1)

(* repr of a float: the shortest decimal that reads back as the value,     *)
(* always with a fractional part ("22.0"); a fraction with no finite       *)
(* expansion is cut after ReprDigits digits.                               *)
StrFloat(x) ==
    LET a == Abs(x.num)
        r == a % x.den
    IN  (IF x.num < 0 THEN <<"-">> ELSE <<>>)
        \o Digits(a \div x.den) \o <<".">>
        \o (IF r = 0 THEN <<"0">> ELSE FracDigits(r, x.den, ReprDigits))

RECURSIVE Repr(_)
RECURSIVE JoinItems(_, _)
RECURSIVE JoinElems(_, _)
JoinItems(kvs, i) ==
    IF i > Len(kvs) THEN <<>>
    ELSE (IF i > 1 THEN <<",", " ">> ELSE <<>>)
         \o Repr(kvs[i][1]) \o <<":", " ">> \o Repr(kvs[i][2])
         \o JoinItems(kvs, i + 1)

JoinElems(elems, i) ==
    IF i > Len(elems) THEN <<>>
    ELSE (IF i > 1 THEN <<",", " ">> ELSE <<>>)
         \o Repr(elems[i]) \o JoinElems(elems, i + 1)

Repr(x) ==
    CASE x.tag = "none" -> <<"N", "o", "n", "e">>
      [] x.tag = "bool" -> IF x.b THEN <<"T", "r", "u", "e">>
                           ELSE <<"F", "a", "l", "s", "e">>
      [] x.tag = "int" -> StrInt(x.n)
      [] x.tag = "float" -> StrFloat(x)
      [] x.tag = "str" -> <<"'">> \o x.s \o <<"'">>
      [] x.tag = "bytes" -> <<"b", "'">> \o x.bs \o <<"'">>
      [] x.tag = "list" -> <<"[">> \o JoinElems(x.l, 1) \o <<"]">>
      [] x.tag = "dict" -> <<"{">> \o JoinItems(x.items, 1) \o <<"}">>
      [] OTHER -> <<"<", x.cls, ">">>

(* str(x), and the f-string field {x} *)
PyStr(x) == IF x.tag = "str" THEN x ELSE Str(Repr(x))

---------------------------------------------------------------------------
(* dict_follows_prototype: proto is a sequence of <<key, matcher>>, the    *)
(* matcher a type ([isType |-> TRUE, t |-> "float"]) or a value            *)
(* ([isType |-> FALSE, v |-> s_temp]).                                     *)

IsType(t) == [isType |-> TRUE, t |-> t]

IsValue(v) == [isType |-> FALSE, v |-> v]

(* dict_follows_prototype with set equality in place of issubset *)
dict_follows_prototype_ExactKeys(var, proto) ==
    IF var.tag # "dict" THEN FALSE
    ELSE IF {proto[i][1] : i \in 1..Len(proto)} # DictKeys(var) THEN FALSE
    ELSE \A i \in 1..Len(proto) :
            LET typ == proto[i][2]
                x == GetItem(var, proto[i][1])
            IN  IF typ.isType THEN IsInstance(x, typ.t) ELSE PyEq(x, typ.v)

dict_follows_prototype(var, proto) ==
    IF var.tag # "dict" THEN FALSE
    ELSE IF ~(\A i \in 1..Len(proto) : HasKey(var, proto[i][1])) THEN FALSE
    ELSE \A i \in 1..Len(proto) :
            LET typ == proto[i][2]
                x == GetItem(var, proto[i][1])
            IN  IF typ.isType THEN IsInstance(x, typ.t) ELSE PyEq(x, typ.v)

EntryProto == << <<k_entry, IsType("dict")>> >>

SensorProto ==
    << <<k_sensor, IsValue(s_temp)>>,
       <<k_value, IsType("float")>>,
       <<k_unit, IsType("str")>> >>

---------------------------------------------------------------------------
(* The stages. Each returns [ret |-> the value returned, diags |-> the     *)
(* number of diagnostics printed].                                         *)

(* InputStage.process without its return {}: the value is passed on *)
InputStageProcess_PassThrough(data) ==
    IF ~dict_follows_prototype(data, EntryProto)
    THEN [ret |-> data, diags |-> 1]
    ELSE [ret |-> SetItem(data, k_valid, True), diags |-> 0]

InputStageProcess(data) ==
    IF ~dict_follows_prototype(data, EntryProto)
    THEN [ret |-> EmptyDict, diags |-> 1]
    ELSE [ret |-> SetItem(data, k_valid, True), diags |-> 0]

(* TransformStage.process checking only that data is a dict: a record     *)
(* without a mapping entry gets metadata too                               *)
TransformStageProcess_NoGuard(data) ==
    IF data.tag # "dict" THEN [ret |-> EmptyDict, diags |-> 1]
    ELSE LET entry == IF HasKey(data, k_entry) THEN GetItem(data, k_entry)
                      ELSE EmptyDict
             n == IF entry.tag = "dict" THEN DictLen(entry) ELSE 0
         IN  [ret |-> SetItem(data, k_metadata,
                              Dict(<< <<k_amount, PyInt(n)>> >>)),
              diags |-> 0]

(* TransformStage.process with len(data) for len(data["entry"]) *)
TransformStageProcess_LenOfRecord(data) ==
    IF ~dict_follows_prototype(data, EntryProto)
    THEN [ret |-> EmptyDict, diags |-> 1]
    ELSE LET entry == GetItem(data, k_entry)
             entry2 == IF dict_follows_prototype(entry, SensorProto)
                       THEN SetItem(entry, k_unit, s_degC)
                       ELSE entry
             data2 == SetItem(data, k_entry, entry2)
         IN  [ret |-> SetItem(data2, k_metadata,
                              Dict(<< <<k_amount, PyInt(DictLen(data2))>> >>)),
              diags |-> 0]

TransformStageProcess(data) ==
    IF ~dict_follows_prototype(data, EntryProto)
    THEN [ret |-> EmptyDict, diags |-> 1]
    ELSE LET entry == GetItem(data, k_entry)
             entry2 == IF dict_follows_prototype(entry, SensorProto)
                       THEN SetItem(entry, k_unit, s_degC)
                       ELSE entry
             data2 == SetItem(data, k_entry, entry2)
         IN  [ret |-> SetItem(data2, k_metadata,
                              Dict(<< <<k_amount, PyInt(DictLen(entry2))>> >>)),
              diags |-> 0]

(* OutputStage.process rendering the value without the unit *)
OutputStageProcess_NoUnit(data) ==
    IF ~dict_follows_prototype(data, EntryProto)
    THEN [ret |-> EmptyStr, diags |-> 1]
    ELSE LET entry == GetItem(data, k_entry)
         IN  IF dict_follows_prototype(entry, SensorProto)
             THEN [ret |-> PyStr(GetItem(entry, k_value)), diags |-> 0]
             ELSE [ret |-> EmptyStr, diags |-> 0]

OutputStageProcess(data) ==
    IF ~dict_follows_prototype(data, EntryProto)
    THEN [ret |-> EmptyStr, diags |-> 1]
    ELSE LET entry == GetItem(data, k_entry)
         IN  IF dict_follows_prototype(entry, SensorProto)
             THEN [ret |-> Str(PyStr(GetItem(entry, k_value)).s
                               \o PyStr(GetItem(entry, k_unit)).s),
                   diags |-> 0]
             ELSE [ret |-> EmptyStr, diags |-> 0]

StageKinds == {"Input", "Transform", "Output"}

StageProcess(stage, data) ==
    CASE stage = "Input" -> InputStageProcess(data)
      [] stage = "Transform" -> TransformStageProcess(data)
      [] stage = "Output" -> OutputStageProcess(data)

---------------------------------------------------------------------------
(* json.loads on the part of JSON the inputs below use: objects, arrays,   *)
(* strings without escapes, numbers without exponent, true, false, null.   *)
(* A parse returns [ok |-> TRUE, val |-> value, next |-> index after it]   *)
(* or ParseFail.                                                           *)

ParseFail == [ok |-> FALSE]

ParseOk(v, j) == [ok |-> TRUE, val |-> v, next |-> j]

DigitSet == {"0", "1", "2", "3", "4", "5", "6", "7", "8", "9"}

DigitVal(c) == CHOOSE d \in 0..9 : DigitChar(d) = c

RECURSIVE Pow10(_)
Pow10(k) == IF k = 0 THEN 1 ELSE 10 * Pow10(k - 1)

RECURSIVE SkipWs(_, _)
SkipWs(t, i) ==
    IF i <= Len(t) /\ t[i] \in {" ", "nl"} THEN SkipWs(t, i + 1) ELSE i

Matches(t, i, word) ==
    /\ i + Len(word) - 1 <= Len(t)
    /\ SubSeq(t, i, i + Len(word) - 1) = word

(* the digits from i on: [val, next, count] *)
RECURSIVE ScanDigits(_, _, _, _)
ScanDigits(t, i, acc, cnt) ==
    IF i <= Len(t) /\ t[i] \in DigitSet
    THEN ScanDigits(t, i + 1, acc * 10 + DigitVal(t[i]), cnt + 1)
    ELSE [val |-> acc, next |-> i, count |-> cnt]

ParseNumber(t, i) ==
    LET neg == t[i] = "-"
        j == IF neg THEN i + 1 ELSE i
        sign == IF neg THEN -1 ELSE 1
    IN  IF j > Len(t) \/ t[j] \notin DigitSet THEN ParseFail
        ELSE LET ip == IF t[j] = "0"
                       THEN [val |-> 0, next |-> j + 1, count |-> 1]
                       ELSE ScanDigits(t, j, 0, 0)
                 k == ip.next
             IN  IF k + 1 <= Len(t) /\ t[k] = "." /\ t[k + 1] \in DigitSet
                 THEN LET fp == ScanDigits(t, k + 1, 0, 0)
                      IN  ParseOk(PyFloat(sign * (ip.val * Pow10(fp.count)
                                                  + fp.val),
                                          Pow10(fp.count)),
                                  fp.next)
                 ELSE ParseOk(PyInt(sign * ip.val), k)

(* from the character after the opening quote *)
RECURSIVE ParseString(_, _, _)
ParseString(t, i, acc) ==
    IF i > Len(t) \/ t[i] = "nl" THEN ParseFail
    ELSE IF t[i] = "\"" THEN ParseOk(Str(acc), i + 1)
    ELSE ParseString(t, i + 1, Append(acc, t[i]))

RECURSIVE ParseValue(_, _)
RECURSIVE ParseMembers(_, _, _)
RECURSIVE ParseElements(_, _, _)
(* "key": value, then "," and another member, or "}" *)
ParseMembers(t, i, d) ==
    IF i > Len(t) \/ t[i] # "\"" THEN ParseFail
    ELSE LET key == ParseString(t, i + 1, <<>>)
         IN  IF ~key.ok THEN ParseFail
             ELSE LET c == SkipWs(t, key.next)
                  IN  IF c > Len(t) \/ t[c] # ":" THEN ParseFail
                      ELSE LET v == ParseValue(t, c + 1)
                           IN  IF ~v.ok THEN ParseFail
                               ELSE LET e == SkipWs(t, v.next)
                                        d2 == SetItem(d, key.val, v.val)
                                    IN  IF e > Len(t) THEN ParseFail
                                        ELSE IF t[e] = "}"
                                        THEN ParseOk(d2, e + 1)
                                        ELSE IF t[e] = ","
                                        THEN ParseMembers(
                                               t, SkipWs(t, e + 1), d2)
                                        ELSE ParseFail

ParseElements(t, i, acc) ==
    LET v == ParseValue(t, i)
    IN  IF ~v.ok THEN ParseFail
        ELSE LET e == SkipWs(t, v.next)
                 acc2 == Append(acc, v.val)
             IN  IF e > Len(t) THEN ParseFail
                 ELSE IF t[e] = "]" THEN ParseOk(List(acc2), e + 1)
                 ELSE IF t[e] = "," THEN ParseElements(t, e + 1, acc2)
                 ELSE ParseFail

ParseValue(t, i) ==
    LET j == SkipWs(t, i)
    IN  IF j > Len(t) THEN ParseFail
        ELSE IF t[j] = "{"
        THEN LET m == SkipWs(t, j + 1)
             IN  IF m <= Len(t) /\ t[m] = "}" THEN ParseOk(EmptyDict, m + 1)
                 ELSE ParseMembers(t, m, EmptyDict)
        ELSE IF t[j] = "["
        THEN LET m == SkipWs(t, j + 1)
             IN  IF m <= Len(t) /\ t[m] = "]" THEN ParseOk(List(<<>>), m + 1)
                 ELSE ParseElements(t, m, <<>>)
        ELSE IF t[j] = "\"" THEN ParseString(t, j + 1, <<>>)
        ELSE IF t[j] \in DigitSet \cup {"-"} THEN ParseNumber(t, j)
        ELSE IF Matches(t, j, <<"n", "u", "l", "l">>) THEN ParseOk(None, j + 4)
        ELSE IF Matches(t, j, <<"t", "r", "u", "e">>) THEN ParseOk(True, j + 4)
        ELSE IF Matches(t, j, <<"f", "a", "l", "s", "e">>)
        THEN ParseOk(PyBool(FALSE), j + 5)
        ELSE ParseFail

(* json.loads(data): [exc |-> "" and val, or the exception raised] *)
JsonDecode(chars) ==
    LET r == ParseValue(chars, 1)
    IN  IF r.ok /\ SkipWs(chars, r.next) > Len(chars)
        THEN [exc |-> "", val |-> r.val]
        ELSE [exc |-> "JSONDecodeError", val |-> None]

JsonLoads(data) ==
    IF data.tag = "str" THEN JsonDecode(data.s)
    ELSE IF data.tag = "bytes"
    THEN IF \E i \in 1..Len(data.bs) : data.bs[i] = "xFF"
         THEN [exc |-> "UnicodeDecodeError", val |-> None]
         ELSE JsonDecode(data.bs)
    ELSE [exc |-> "TypeError", val |-> None]

(* JSON texts *)
(* {"sensor": "temp", "value": 23.5, "unit": "C"}: the input of test_json_adapter *)
t_sensor ==
    Str(<<"{", "\"", "s", "e", "n", "s", "o", "r", "\"", ":", " ", "\"",
      "t", "e", "m", "p", "\"", ",", " ", "\"", "v", "a", "l", "u", "e",
      "\"", ":", " ", "2", "3", ".", "5", ",", " ", "\"", "u", "n", "i",
      "t", "\"", ":", " ", "\"", "C", "\"", "}">>)

(* {"sensor":"hum","value":40.5,"unit":"%"}: a reading of another sensor *)
t_humidity ==
    Str(<<"{", "\"", "s", "e", "n", "s", "o", "r", "\"", ":", "\"", "h",
      "u", "m", "\"", ",", "\"", "v", "a", "l", "u", "e", "\"", ":", "4",
      "0", ".", "5", ",", "\"", "u", "n", "i", "t", "\"", ":", "\"", "%",
      "\"", "}">>)

(* {"sensor":"temp","value":23,"unit":"C"}: a reading whose value is an int *)
t_intvalue ==
    Str(<<"{", "\"", "s", "e", "n", "s", "o", "r", "\"", ":", "\"", "t",
      "e", "m", "p", "\"", ",", "\"", "v", "a", "l", "u", "e", "\"", ":",
      "2", "3", ",", "\"", "u", "n", "i", "t", "\"", ":", "\"", "C", "\"",
      "}">>)

(* {"sensor":"temp","value":0.25}: a reading with no unit *)
t_nounit ==
    Str(<<"{", "\"", "s", "e", "n", "s", "o", "r", "\"", ":", "\"", "t",
      "e", "m", "p", "\"", ",", "\"", "v", "a", "l", "u", "e", "\"", ":",
      "0", ".", "2", "5", "}">>)

(* {"id":7,"unit":"F","value":-1.5,"sensor":"temp"}: a reading with another field, in another order *)
t_extra ==
    Str(<<"{", "\"", "i", "d", "\"", ":", "7", ",", "\"", "u", "n", "i",
      "t", "\"", ":", "\"", "F", "\"", ",", "\"", "v", "a", "l", "u", "e",
      "\"", ":", "-", "1", ".", "5", ",", "\"", "s", "e", "n", "s", "o",
      "r", "\"", ":", "\"", "t", "e", "m", "p", "\"", "}">>)

(* {"a":1,"a":null}: an object with a repeated key *)
t_object ==
    Str(<<"{", "\"", "a", "\"", ":", "1", ",", "\"", "a", "\"", ":", "n",
      "u", "l", "l", "}">>)

(* {} *)
t_empty_object == Str(<<"{", "}">>)

(* [1, true] *)
t_array == Str(<<"[", "1", ",", " ", "t", "r", "u", "e", "]">>)

(* 3 *)
t_number == Str(<<"3">>)

(* "x" *)
t_string == Str(<<"\"", "x", "\"">>)

(* not json *)
t_not_json == Str(<<"n", "o", "t", " ", "j", "s", "o", "n">>)

(* {"a":1 *)
t_truncated == Str(<<"{", "\"", "a", "\"", ":", "1">>)

(* {"a":1,} *)
t_trailing == Str(<<"{", "\"", "a", "\"", ":", "1", ",", "}">>)

(* {} 1 *)
t_extra_data == Str(<<"{", "}", " ", "1">>)

JsonTexts ==
    {t_sensor, t_humidity, t_intvalue, t_nounit, t_extra, t_object,
      t_empty_object, t_array, t_number, t_string, t_not_json, t_truncated,
      t_trailing, t_extra_data, EmptyStr}

---------------------------------------------------------------------------
(* ProcessingPipeline.process: each stage in order, on the value the stage *)
(* before it returned. trace[i] is the value stage i returned.             *)

(* ProcessingPipeline.process without data = ...: every stage is given    *)
(* the value process was called with                                       *)
RECURSIVE RunStages_NoThreading(_, _, _)
RunStages_NoThreading(stgs, i, data) ==
    IF i > Len(stgs) THEN [ret |-> data, trace |-> <<>>, diags |-> 0]
    ELSE LET r == StageProcess(stgs[i], data)
             rest == RunStages_NoThreading(stgs, i + 1, data)
         IN  [ret |-> IF i = Len(stgs) THEN r.ret ELSE rest.ret,
              trace |-> <<r.ret>> \o rest.trace,
              diags |-> r.diags + rest.diags]

RECURSIVE RunStages(_, _, _)
RunStages(stgs, i, data) ==
    IF i > Len(stgs) THEN [ret |-> data, trace |-> <<>>, diags |-> 0]
    ELSE LET r == StageProcess(stgs[i], data)
             rest == RunStages(stgs, i + 1, r.ret)
         IN  [ret |-> rest.ret,
              trace |-> <<r.ret>> \o rest.trace,
              diags |-> r.diags + rest.diags]

ProcessingPipelineProcess(stgs, data) == RunStages(stgs, 1, data)

(* What a call of an adapter's process did: it returned value or raised    *)
(* exc, printed diags diagnostics, built the record input (None when it    *)
(* built none) and called the stages, which returned trace.                *)
Returned(v, n, input, trace) ==
    [outcome |-> "return", value |-> v, exc |-> "", diags |-> n,
     input |-> input, trace |-> trace]

Raised(e, n) ==
    [outcome |-> "raise", value |-> None, exc |-> e, diags |-> n,
     input |-> None, trace |-> <<>>]

(* input_data of the three adapters, super().process and str() *)
RunAdapter(stgs, entry, type) ==
    LET input_data == Dict(<< <<k_entry, entry>>, <<k_type, type>> >>)
        r == ProcessingPipelineProcess(stgs, input_data)
    IN  Returned(PyStr(r.ret), r.diags, input_data, r.trace)

(* JSONAdapter.process without its except TypeError clause *)
JSONAdapterProcess_NoTypeError(stgs, data) ==
    LET r == JsonLoads(data)
    IN  IF r.exc = "JSONDecodeError" THEN Returned(None, 1, None, <<>>)
        ELSE IF r.exc # "" THEN Raised(r.exc, 0)
        ELSE RunAdapter(stgs, r.val, s_json)

JSONAdapterProcess(stgs, data) ==
    LET r == JsonLoads(data)
    IN  IF r.exc \in {"JSONDecodeError", "TypeError"}
        THEN Returned(None, 1, None, <<>>)
        ELSE IF r.exc # "" THEN Raised(r.exc, 0)
        ELSE RunAdapter(stgs, r.val, s_json)

(* str.splitlines on line feeds: no line for an empty text, none after a   *)
(* final line feed                                                         *)
RECURSIVE SplitLines(_, _, _)
SplitLines(t, i, cur) ==
    IF i > Len(t) THEN (IF cur = <<>> /\ (i = 1 \/ t[i - 1] = "nl")
                        THEN <<>> ELSE <<cur>>)
    ELSE IF t[i] = "nl" THEN <<cur>> \o SplitLines(t, i + 1, <<>>)
    ELSE SplitLines(t, i + 1, Append(cur, t[i]))

(* csv.reader (the excel dialect, not strict) over lines that hold no     *)
(* line feed. CsvScan reads one record from character ci of line li, in    *)
(* reader state st, with the characters field of the open field and the    *)
(* fields saved so far: [fields |-> the record, next |-> the first line    *)
(* after it]. Only a quoted field left open carries a record over the end  *)
(* of a line; the end of the input closes it.                              *)
RECURSIVE CsvScan(_, _, _, _, _, _)
CsvScan(lines, li, ci, st, field, fields) ==
    IF li > Len(lines)
    THEN [fields |-> Append(fields, Str(field)), next |-> li]
    ELSE IF ci > Len(lines[li])
    THEN CASE st = "START_RECORD" -> [fields |-> <<>>, next |-> li + 1]
           [] st = "IN_QUOTED_FIELD" ->
                CsvScan(lines, li + 1, 1, st, field, fields)
           [] OTHER -> [fields |-> Append(fields, Str(field)),
                        next |-> li + 1]
    ELSE LET c == lines[li][ci]
         IN  CASE st \in {"START_RECORD", "START_FIELD"} ->
                    IF c = "\""
                    THEN CsvScan(lines, li, ci + 1, "IN_QUOTED_FIELD",
                                 field, fields)
                    ELSE IF c = ","
                    THEN CsvScan(lines, li, ci + 1, "START_FIELD", <<>>,
                                 Append(fields, Str(field)))
                    ELSE CsvScan(lines, li, ci + 1, "IN_FIELD",
                                 Append(field, c), fields)
               [] st = "IN_FIELD" ->
                    IF c = ","
                    THEN CsvScan(lines, li, ci + 1, "START_FIELD", <<>>,
                                 Append(fields, Str(field)))
                    ELSE CsvScan(lines, li, ci + 1, "IN_FIELD",
                                 Append(field, c), fields)
               [] st = "IN_QUOTED_FIELD" ->
                    IF c = "\""
                    THEN CsvScan(lines, li, ci + 1, "QUOTE_IN_QUOTED_FIELD",
                                 field, fields)
                    ELSE CsvScan(lines, li, ci + 1, "IN_QUOTED_FIELD",
                                 Append(field, c), fields)
               [] st = "QUOTE_IN_QUOTED_FIELD" ->
                    IF c = "\""
                    THEN CsvScan(lines, li, ci + 1, "IN_QUOTED_FIELD",
                                 Append(field, c), fields)
                    ELSE IF c = ","
                    THEN CsvScan(lines, li, ci + 1, "START_FIELD", <<>>,
                                 Append(fields, Str(field)))
                    ELSE CsvScan(lines, li, ci + 1, "IN_FIELD",
                                 Append(field, c), fields)

(* list(reader(lines)): the records, from line li on *)
RECURSIVE CsvRowsFrom(_, _)
CsvRowsFrom(lines, li) ==
    IF li > Len(lines) THEN <<>>
    ELSE LET r == CsvScan(lines, li, 1, "START_RECORD", <<>>, <<>>)
         IN  <<r.fields>> \o CsvRowsFrom(lines, r.next)

CsvRows(lines) == CsvRowsFrom(lines, 1)

(* the loop counting the fields of the row *)
RECURSIVE CountEntries(_, _, _)
CountEntries(row, i, entries) ==
    IF i > Len(row) THEN entries
    ELSE CountEntries(row, i + 1,
           IF HasKey(entries, row[i])
           THEN SetItem(entries, row[i],
                        PyInt(GetItem(entries, row[i]).n + 1))
           ELSE SetItem(entries, row[i], PyInt(1)))

CSVAdapterProcess(stgs, data) ==
    IF data.tag # "str" THEN Returned(None, 1, None, <<>>)
    ELSE LET rows == CsvRows(SplitLines(data.s, 1, <<>>))
         IN  IF Len(rows) = 0 THEN Raised("IndexError", 0)
             ELSE RunAdapter(stgs, CountEntries(rows[1], 1, EmptyDict), s_csv)

(* sum(data) as a fraction <<p, q>> *)
NumOf(x) ==
    CASE x.tag = "int" -> <<x.n, 1>>
      [] x.tag = "bool" -> <<IF x.b THEN 1 ELSE 0, 1>>
      [] x.tag = "float" -> <<x.num, x.den>>

RECURSIVE SumOf(_, _)
SumOf(l, i) ==
    IF i > Len(l) THEN <<0, 1>>
    ELSE LET a == NumOf(l[i])
             b == SumOf(l, i + 1)
         IN  <<a[1] * b[2] + b[1] * a[2], a[2] * b[2]>>

(* StreamAdapter.process with sum(data) // len(data): an int when every   *)
(* sample is an int                                                        *)
StreamAdapterProcess_FloorDiv(stgs, data) ==
    IF \/ data.tag # "list"
       \/ \E i \in 1..Len(data.l) :
            ~(IsInstance(data.l[i], "int") \/ IsInstance(data.l[i], "float"))
    THEN Returned(None, 1, None, <<>>)
    ELSE IF Len(data.l) = 0 THEN Raised("ZeroDivisionError", 0)
    ELSE LET sum == SumOf(data.l, 1)
             q == sum[1] \div (sum[2] * Len(data.l))
             mean == IF \A i \in 1..Len(data.l) : IsInstance(data.l[i], "int")
                     THEN PyInt(q) ELSE PyFloat(q, 1)
         IN  RunAdapter(stgs,
                        Dict(<< <<k_sensor, s_temp>>, <<k_value, mean>>,
                                <<k_unit, s_C>> >>),
                        s_stream)

StreamAdapterProcess(stgs, data) ==
    IF \/ data.tag # "list"
       \/ \E i \in 1..Len(data.l) :
            ~(IsInstance(data.l[i], "int") \/ IsInstance(data.l[i], "float"))
    THEN Returned(None, 1, None, <<>>)
    ELSE IF Len(data.l) = 0 THEN Raised("ZeroDivisionError", 0)
    ELSE LET sum == SumOf(data.l, 1)
         IN  RunAdapter(stgs,
                        Dict(<< <<k_sensor, s_temp>>,
                                <<k_value,
                                  PyFloat(sum[1], sum[2] * Len(data.l))>>,
                                <<k_unit, s_C>> >>),
                        s_stream)

AdapterKinds == {"JSONAdapter", "CSVAdapter", "StreamAdapter"}

AdapterProcess(k, stgs, data) ==
    CASE k = "JSONAdapter" -> JSONAdapterProcess(stgs, data)
      [] k = "CSVAdapter" -> CSVAdapterProcess(stgs, data)
      [] k = "StreamAdapter" -> StreamAdapterProcess(stgs, data)

---------------------------------------------------------------------------
(* NexusManager. An adapter is the object                                  *)
(* [tag |-> "obj", cls |-> its class, stages |-> its stage list].          *)

Adapter(k, stgs) == [tag |-> "obj", cls |-> k, stages |-> stgs]

IsPipeline(x) == x.tag = "obj" /\ x.cls \in AdapterKinds

(* add_pipeline: the list afterwards, and how the call ended. Printing the *)
(* diagnostic evaluates sys.error, an attribute the sys module lacks.      *)
AddPipelineResult(pls, pipeline) ==
    IF ~IsPipeline(pipeline)
    THEN [pipelines |-> pls, outcome |-> "raise", exc |-> "AttributeError",
          diags |-> 0]
    ELSE [pipelines |-> Append(pls, pipeline), outcome |-> "return",
          exc |-> "", diags |-> 0]

(* process_data: its body is pass. calls lists the process calls made.    *)
ProcessDataResult(pls, data) ==
    [outcome |-> "return", value |-> None, calls |-> <<>>]

---------------------------------------------------------------------------
(* The inputs *)

SeqsUpTo(S, n) == UNION {[1..k -> S] : k \in 0..n}

(* the values json.loads makes of the JSON texts, and None *)
EntryValues ==
    {JsonLoads(x).val : x \in {y \in JsonTexts : JsonLoads(y).exc = ""}}
    \cup {None}

(* the output of the Output stage for the reading of test_json_adapter *)
s_rendered == Str(<<"2", "3", ".", "5", "deg", "C">>)

(* the values given to a stage: records with and without a type, records   *)
(* the Input stage has accepted, records with no entry, and other values   *)
Records ==
    {Dict(<< <<k_entry, e>>, <<k_type, s_json>> >>) : e \in EntryValues}
    \cup {Dict(<< <<k_entry, e>> >>) : e \in EntryValues}
    \cup {Dict(<< <<k_entry, e>>, <<k_type, s_json>>, <<k_valid, True>> >>) :
            e \in EntryValues}
    \cup {EmptyDict, Dict(<< <<k_type, s_json>> >>), None, EmptyStr,
          s_rendered, PyInt(0), List(<<>>)}

CsvAlphabet == {"a", "b", ",", "nl"}

(* "user,action,timestamp", the input of test_csv_adapter *)
t_csv ==
    Str(<<"u", "s", "e", "r", ",", "a", "c", "t", "i", "o", "n", ",",
          "t", "i", "m", "e", "s", "t", "a", "m", "p">>)

CsvTexts ==
    {Str(x) : x \in SeqsUpTo(CsvAlphabet, MaxText)}
    \cup {t_csv, Str(<<"a", ",", "b", ",", "a">>),
          Str(<<"a", ",", "b", "nl", "b", ",", "c">>),
          Str(<<"nl", "a", ",", "b">>)}

(* texts with the quote character of csv.reader *)
CsvQuotedTexts ==
    {Str(x) : x \in SeqsUpTo({"a", "b", ",", "nl", "\""}, MaxCsvText)}
    \cup {t_csv}

(* the values and shapes given to dict_follows_prototype, and the fields  *)
(* added to a value: var[key] = v for each <<key, v>> in turn              *)
ShapeValues ==
    {None, PyInt(5), EmptyStr, List(<<>>), EmptyDict,
     Dict(<< <<k_entry, EmptyDict>> >>), Dict(<< <<k_entry, None>> >>),
     Dict(<< <<k_entry, EmptyDict>>, <<k_type, s_json>> >>),
     JsonLoads(t_sensor).val, JsonLoads(t_humidity).val,
     JsonLoads(t_intvalue).val, JsonLoads(t_nounit).val}

Shapes ==
    {<<>>, EntryProto, SensorProto, << <<k_value, IsType("int")>> >>}

ExtraFields ==
    SeqsUpTo({k_valid, k_type, k_value} \X {None, PyInt(5)},
             MaxExtra)

RECURSIVE Extend(_, _, _)
Extend(var, extra, i) ==
    IF i > Len(extra) THEN var
    ELSE Extend(SetItem(var, extra[i][1], extra[i][2]), extra, i + 1)

SampleValues == {PyInt(20), PyFloat(49, 2), PyBool(TRUE), Str(<<"x">>)}

(* [20, 21, 22, 23, 24.5], the input of test_steam_adapter *)
l_stream ==
    List(<<PyInt(20), PyInt(21), PyInt(22), PyInt(23), PyFloat(49, 2)>>)

SampleLists ==
    {List(x) : x \in SeqsUpTo(SampleValues, MaxSamples)} \cup {l_stream}

OtherValues == {None, PyInt(5), PyFloat(1, 2), EmptyDict}

RawInputs(k) ==
    CASE k = "JSONAdapter" ->
           JsonTexts
           \cup {Bytes(t_empty_object.s), Bytes(t_sensor.s),
                 Bytes(t_not_json.s), Bytes(<<"xFF">>),
                 List(<<PyInt(20)>>)}
           \cup OtherValues
      [] k = "CSVAdapter" ->
           CsvTexts \cup {Bytes(<<"a">>), List(<<Str(<<"a">>)>>)} \cup OtherValues
      [] k = "StreamAdapter" ->
           SampleLists \cup {Str(<<"2", "0">>)} \cup OtherValues

PipelineArgs ==
    {Adapter(k, stgs) :
       k \in AdapterKinds, stgs \in {<<>>, <<"Input", "Transform", "Output">>}}
    \cup {None, PyInt(5), [tag |-> "obj", cls |-> "InputStage"]}

InitialValues == {t_sensor, t_csv, l_stream, None}

---------------------------------------------------------------------------
(* The state: one adapter (its class kind, its stage list stages), one     *)
(* manager (its list pipelines), one data stream of ex1 (its class and its *)
(* data, none before one is constructed) and last, the last call made and  *)
(* what it did.                                                            *)

Init ==
    /\ kind \in AdapterKinds
    /\ stages = <<>>
    /\ pipelines = <<>>
    /\ stream = [cls |-> "none", data |-> EmptyDict]
    /\ last = [op |-> "init"]

(* adapter.add_stage(stage) *)
AddStage ==
    \E stage \in StageKinds :
        /\ Len(stages) < MaxStages
        /\ stages' = Append(stages, stage)
        /\ last' = [op |-> "add_stage", stage |-> stage]
        /\ UNCHANGED <<kind, pipelines, stream>>

(* adapter.process(data) *)
Process ==
    \E data \in RawInputs(kind) :
        /\ last' = [op |-> "process", data |-> data,
                    res |-> AdapterProcess(kind, stages, data)]
        /\ UNCHANGED <<kind, stages, pipelines, stream>>

(* stage.process(data), called on a stage directly *)
CallStage ==
    \E stage \in StageKinds, data \in Records :
        /\ last' = [op |-> "stage", stage |-> stage, data |-> data,
                    res |-> StageProcess(stage, data)]
        /\ UNCHANGED <<kind, stages, pipelines, stream>>

(* manager.add_pipeline(pipeline) *)
AddPipeline ==
    \E pipeline \in PipelineArgs :
        LET r == AddPipelineResult(pipelines, pipeline)
        IN  /\ Len(pipelines) < MaxPipelines
            /\ pipelines' = r.pipelines
            /\ last' = [op |-> "add_pipeline", pipeline |-> pipeline,
                        before |-> pipelines, res |-> r]
            /\ UNCHANGED <<kind, stages, stream>>

(* manager.process_data(data) *)
ProcessData ==
    \E data \in InitialValues :
        /\ last' = [op |-> "process_data", data |-> data,
                    res |-> ProcessDataResult(pipelines, data)]
        /\ UNCHANGED <<kind, stages, pipelines, stream>>

(* the adapter: stages are attached and process is called, in any order *)
Next == AddStage \/ Process

Spec == Init /\ [][Next]_vars

(* the stages, called directly *)
NextStage == CallStage

SpecStage == Init /\ [][NextStage]_vars

(* csv_adapter.process(data) on a text that may hold quote characters *)
ProcessCsv ==
    \E data \in CsvQuotedTexts :
        /\ kind = "CSVAdapter"
        /\ last' = [op |-> "process", data |-> data,
                    res |-> AdapterProcess(kind, stages, data)]
        /\ UNCHANGED <<kind, stages, pipelines, stream>>

(* the CSV adapter on quoted texts *)
NextCsv == ProcessCsv

SpecCsv == Init /\ [][NextCsv]_vars

(* dict_follows_prototype(var, proto), then fields whose keys are not in  *)
(* proto are added to var and it is called again                           *)
CheckShape ==
    \E var \in ShapeValues, proto \in Shapes, extra \in ExtraFields :
        LET more == IF var.tag = "dict" THEN Extend(var, extra, 1) ELSE var
        IN  /\ \A i \in 1..Len(extra), j \in 1..Len(proto) :
                  extra[i][1] # proto[j][1]
            /\ last' = [op |-> "shape", var |-> var, proto |-> proto,
                        more |-> more,
                        res |-> dict_follows_prototype(var, proto),
                        resMore |-> dict_follows_prototype(more, proto)]
            /\ UNCHANGED <<kind, stages, pipelines, stream>>

(* dict_follows_prototype, called directly *)
NextShape == CheckShape

SpecShape == Init /\ [][NextShape]_vars

(* the manager *)
NextManager == AddPipeline \/ ProcessData

SpecManager == Init /\ [][NextManager]_vars

---------------------------------------------------------------------------
(* The data processors of ex0/stream_processor.py. A call returns value or *)
(* raises exc.                                                             *)

ProcReturned(v) == [outcome |-> "return", value |-> v, exc |-> ""]

ProcRaised(e) == [outcome |-> "raise", value |-> None, exc |-> e]

Whitespace == {" ", "nl"}

(* str.split(): the runs of characters between whitespace *)
RECURSIVE SplitWs(_, _, _)
SplitWs(chars, i, cur) ==
    LET done == IF cur = <<>> THEN <<>> ELSE <<cur>>
    IN  IF i > Len(chars) THEN done
        ELSE IF chars[i] \in Whitespace
        THEN done \o SplitWs(chars, i + 1, <<>>)
        ELSE SplitWs(chars, i + 1, Append(cur, chars[i]))

(* str.split(sep) *)
RECURSIVE SplitOn(_, _, _, _)
SplitOn(chars, sep, i, cur) ==
    IF i > Len(chars) THEN <<cur>>
    ELSE IF /\ i + Len(sep) - 1 <= Len(chars)
            /\ SubSeq(chars, i, i + Len(sep) - 1) = sep
    THEN <<cur>> \o SplitOn(chars, sep, i + Len(sep), <<>>)
    ELSE SplitOn(chars, sep, i + 1, Append(cur, chars[i]))

(* str.startswith(prefix) *)
StartsWith(chars, prefix) ==
    /\ Len(prefix) <= Len(chars)
    /\ SubSeq(chars, 1, Len(prefix)) = prefix

(* int(token) for a token with no whitespace and no underscore *)
RECURSIVE DigitsVal(_, _, _)
DigitsVal(token, i, acc) ==
    IF i > Len(token) THEN acc
    ELSE DigitsVal(token, i + 1, acc * 10 + DigitVal(token[i]))

ParseInt(token) ==
    LET signed == Len(token) > 0 /\ token[1] \in {"-", "+"}
        body == IF signed THEN Tail(token) ELSE token
    IN  IF Len(body) = 0 \/ \E i \in 1..Len(body) : body[i] \notin DigitSet
        THEN [ok |-> FALSE, n |-> 0]
        ELSE [ok |-> TRUE,
              n |-> IF signed /\ token[1] = "-" THEN -DigitsVal(body, 1, 0)
                    ELSE DigitsVal(body, 1, 0)]

(* " ".join(map(str, data)) *)
RECURSIVE JoinSpace(_, _)
JoinSpace(l, i) ==
    IF i > Len(l) THEN <<>>
    ELSE (IF i > 1 THEN <<" ">> ELSE <<>>) \o PyStr(l[i]).s
         \o JoinSpace(l, i + 1)

RECURSIVE SumInts(_, _)
SumInts(ns, i) == IF i > Len(ns) THEN 0 ELSE ns[i] + SumInts(ns, i + 1)

(* f"{num / den:.1f}": one decimal, ties to even. A tie k/20 of a quotient *)
(* with den < 20 is a binary fraction, so the float is the exact quotient. *)
Format1f(num, den) ==
    LET a == Abs(num) * 10
        q == a \div den
        r == a % den
        m == IF 2 * r > den \/ (2 * r = den /\ q % 2 = 1) THEN q + 1 ELSE q
    IN  (IF num < 0 THEN <<"-">> ELSE <<>>)
        \o Digits(m \div 10) \o <<".">> \o <<DigitChar(m % 10)>>

(* DataProcessor.format_output *)
s_Processed == <<"P", "r", "o", "c", "e", "s", "s", "e", "d">>

(* NumericProcessor *)
NumericProcessorValidate(data) ==
    IF data.tag # "list" THEN FALSE
    ELSE \A i \in 1..Len(data.l) : data.l[i].tag = "int"

NumericProcessorProcess(data) ==
    IF data.tag # "list" THEN EmptyStr
    ELSE IF \E i \in 1..Len(data.l) : data.l[i].tag # "int" THEN EmptyStr
    ELSE Str(JoinSpace(data.l, 1))

NumericProcessorFormatOutput(result) ==
    IF result.tag # "str" THEN ProcReturned(EmptyStr)
    ELSE LET tokens == SplitWs(result.s, 1, <<>>)
             parsed == [i \in 1..Len(tokens) |-> ParseInt(tokens[i])]
             data == [i \in 1..Len(tokens) |-> parsed[i].n]
             summary == SumInts(data, 1)
         IN  IF \E i \in 1..Len(tokens) : ~parsed[i].ok
             THEN ProcRaised("ValueError")
             ELSE IF Len(data) = 0 THEN ProcRaised("ZeroDivisionError")
             ELSE ProcReturned(Str(
                    s_Processed \o <<" ">> \o StrInt(Len(data))
                    \o <<" ", "n", "u", "m", "e", "r", "i", "c", " ",
                       "v", "a", "l", "u", "e", "s">>
                    \o <<",", " ", "s", "u", "m", "=">> \o StrInt(summary)
                    \o <<",", " ", "a", "v", "g", "=">>
                    \o Format1f(summary, Len(data))))

(* TextProcessor *)
TextProcessorValidate(data) == data.tag = "str"

TextProcessorProcess(data) == IF data.tag # "str" THEN EmptyStr ELSE data

TextProcessorFormatOutput(result) ==
    IF result.tag # "str" THEN ProcReturned(EmptyStr)
    ELSE ProcReturned(Str(
           s_Processed \o <<" ", "t", "e", "x", "t", ":", " ">>
           \o StrInt(Len(result.s))
           \o <<" ", "c", "h", "a", "r", "a", "c", "t", "e", "r", "s",
              ",", " ">>
           \o StrInt(Len(SplitWs(result.s, 1, <<>>)))
           \o <<" ", "w", "o", "r", "d", "s">>))

(* LogProcessor *)
level ==
    {<<"E", "R", "R", "O", "R", ":">>, <<"W", "A", "R", "N", ":">>,
     <<"I", "N", "F", "O", ":">>, <<"D", "E", "B", "U", "G", ":">>}

(* the keys of label, and label[key] *)
LabelKeys ==
    {<<"E", "R", "R", "O", "R">>, <<"W", "A", "R", "N">>,
     <<"D", "E", "B", "U", "G">>, <<"I", "N", "F", "O">>}

label(key) ==
    IF key \in {<<"E", "R", "R", "O", "R">>, <<"W", "A", "R", "N">>}
    THEN <<"[", "A", "L", "E", "R", "T", "]">>
    ELSE <<"[", "I", "N", "F", "O", "]">>

LogProcessorValidate(data) ==
    data.tag = "str" /\ \E prefix \in level : StartsWith(data.s, prefix)

LogProcessorProcess(data) ==
    IF ~LogProcessorValidate(data) THEN EmptyStr ELSE data

LogProcessorFormatOutput(result) ==
    LET split == SplitOn(result.s, <<":", " ">>, 1, <<>>)
    IN  IF Len(split) # 2 THEN ProcReturned(EmptyStr)
        ELSE IF split[1] \notin LabelKeys THEN ProcRaised("KeyError")
        ELSE ProcReturned(Str(
               label(split[1]) \o <<" ">> \o split[1]
               \o <<" ", "l", "e", "v", "e", "l", " ", "d", "e", "t",
                  "e", "c", "t", "e", "d", ":", " ">>
               \o split[2]))

ProcessorKinds == {"NumericProcessor", "TextProcessor", "LogProcessor"}

ProcessorValidate(p, data) ==
    CASE p = "NumericProcessor" -> NumericProcessorValidate(data)
      [] p = "TextProcessor" -> TextProcessorValidate(data)
      [] p = "LogProcessor" -> LogProcessorValidate(data)

ProcessorProcess(p, data) ==
    CASE p = "NumericProcessor" -> NumericProcessorProcess(data)
      [] p = "TextProcessor" -> TextProcessorProcess(data)
      [] p = "LogProcessor" -> LogProcessorProcess(data)

ProcessorFormatOutput(p, result) ==
    CASE p = "NumericProcessor" -> NumericProcessorFormatOutput(result)
      [] p = "TextProcessor" -> TextProcessorFormatOutput(result)
      [] p = "LogProcessor" -> LogProcessorFormatOutput(result)

(* get_processing_result(processor, data); valid is what validate said *)
get_processing_result(p, data) ==
    IF ~ProcessorValidate(p, data)
    THEN [valid |-> FALSE, res |-> ProcReturned(EmptyStr)]
    ELSE [valid |-> TRUE,
          res |-> ProcessorFormatOutput(p, ProcessorProcess(p, data))]

(* the data given to the processors *)
ProcessorInputs(p) ==
    CASE p = "NumericProcessor" ->
           {List(x) :
              x \in SeqsUpTo({PyInt(0), PyInt(1), PyInt(-1), PyInt(12)},
                             MaxNums)}
           \cup {List(<<PyInt(1), PyInt(2), PyInt(3)>>),
                 List(<<PyBool(TRUE)>>), List(<<PyFloat(3, 2)>>),
                 List(<<PyInt(1), Str(<<"2">>)>>), Str(<<"1", " ", "2">>),
                 None}
      [] p = "TextProcessor" ->
           {Str(x) : x \in SeqsUpTo({"a", " ", "nl"}, MaxTail)}
           \cup {Str(<<"H", "e", "l", "l", "o", " ", "W", "o", "r", "l", "d",
                       "!">>),
                 PyInt(5), None}
      [] p = "LogProcessor" ->
           {Str(prefix \o x) :
              prefix \in level, x \in SeqsUpTo({":", " ", "x"}, MaxTail)}
           \cup {Str(<<"I", "N", "F", "O", ":", " ", "S", "y", "s", "t", "e",
                       "m", " ", "r", "e", "a", "d", "y">>),
                 Str(<<"E", "R", "R", "O", "R", "S", ":", " ", "x">>),
                 EmptyStr, None, List(<<>>)}

(* result = get_processing_result(processor, data) *)
GetProcessingResult ==
    \E p \in ProcessorKinds :
        \E data \in ProcessorInputs(p) :
            /\ last' = [op |-> "get_processing_result", processor |-> p,
                        data |-> data,
                        res |-> get_processing_result(p, data)]
            /\ UNCHANGED <<kind, stages, pipelines, stream>>

(* the processors, behind get_processing_result *)
NextProcessor == GetProcessingResult

SpecProcessor == Init /\ [][NextProcessor]_vars

---------------------------------------------------------------------------
(* The streams of ex1/data_stream.py. self.data maps a field to the list   *)
(* of its readings.                                                        *)

k_buy == Str(<<"b", "u", "y">>)

k_sell == Str(<<"s", "e", "l", "l">>)

StreamKinds == {"SensorStream", "TransactionStream"}

possible_fields(cls) ==
    IF cls = "SensorStream"
    THEN {s_temp, Str(<<"h", "u", "m", "i", "d", "i", "t", "y">>),
          Str(<<"p", "r", "e", "s", "s", "u", "r", "e">>)}
    ELSE {k_buy, k_sell}

(* str.strip(), as float() and int() do to their argument *)
RECURSIVE Strip(_)
Strip(chars) ==
    IF chars = <<>> THEN chars
    ELSE IF Head(chars) \in Whitespace THEN Strip(Tail(chars))
    ELSE IF chars[Len(chars)] \in Whitespace
    THEN Strip(SubSeq(chars, 1, Len(chars) - 1))
    ELSE chars

(* float(val) for a decimal numeral with no exponent: sign, digits, point, *)
(* digits; anything else over these characters is a ValueError             *)
ParseFloat(val) ==
    LET token == Strip(val)
        signed == Len(token) > 0 /\ token[1] \in {"-", "+"}
        body == IF signed THEN Tail(token) ELSE token
        parts == SplitOn(body, <<".">>, 1, <<>>)
        whole == parts[1]
        frac == IF Len(parts) = 2 THEN parts[2] ELSE <<>>
        all == whole \o frac
        mag == DigitsVal(all, 1, 0)
    IN  IF \/ Len(parts) > 2
           \/ Len(all) = 0
           \/ \E i \in 1..Len(all) : all[i] \notin DigitSet
        THEN [ok |-> FALSE, v |-> None]
        ELSE [ok |-> TRUE,
              v |-> PyFloat(IF signed /\ token[1] = "-" THEN -mag ELSE mag,
                            Pow10(Len(frac)))]

(* val = float(val) of SensorStream, val = int(val) of TransactionStream *)
ConvertValue(cls, val) ==
    IF cls = "SensorStream" THEN ParseFloat(val)
    ELSE LET r == ParseInt(Strip(val))
         IN  [ok |-> r.ok, v |-> IF r.ok THEN PyInt(r.n) ELSE None]

(* the loop of process_batch over the [key, val] pairs: ok is false when   *)
(* a conversion raised ValueError, data is self.data as the loop left it   *)
RECURSIVE StoreItems(_, _, _, _)
StoreItems(cls, pairs, i, data) ==
    IF i > Len(pairs) THEN [ok |-> TRUE, data |-> data]
    ELSE LET key == Str(pairs[i][1])
             c == ConvertValue(cls, pairs[i][2])
         IN  IF key \notin possible_fields(cls)
             THEN StoreItems(cls, pairs, i + 1, data)
             ELSE IF ~c.ok THEN [ok |-> FALSE, data |-> data]
             ELSE StoreItems(cls, pairs, i + 1,
                    IF HasKey(data, key)
                    THEN SetItem(data, key,
                                 List(Append(GetItem(data, key).l, c.v)))
                    ELSE SetItem(data, key, List(<<c.v>>)))

(* process_batch of the two classes: ret is the string returned, data is   *)
(* self.data after the call                                                *)
ProcessBatchOf(cls, data, data_batch, banner, error) ==
    LET batch_str == SelectSeq(PyStr(data_batch).s, LAMBDA c : c # "'")
    IN
    IF \/ data_batch.tag # "list"
       \/ \E i \in 1..Len(data_batch.l) : data_batch.l[i].tag # "str"
    THEN [ret |->
            Str(<<"[", "E", "r", "r", "o", "r", "]", ":", " ", "t", "h", "e",
                " ", "g", "i", "v", "e", "n", " ", "d", "a", "t", "a", " ", "b",
                "a", "t", "c", "h", " ", "i", "s", " ", "n", "o", "t", " ", "a",
                " ", "l", "i", "s", "t", " ", "o", "f", " ", "s", "t", "r", "i",
                "n", "g", "s", ".">>),
          data |-> data]
    ELSE LET split == [i \in 1..Len(data_batch.l) |->
                         SplitOn(data_batch.l[i].s, <<":">>, 1, <<>>)]
             pairs == SelectSeq(split, LAMBDA x : Len(x) = 2)
             r == StoreItems(cls, pairs, 1, data)
         IN  IF ~r.ok THEN [ret |-> error, data |-> r.data]
             ELSE [ret |-> Str(banner \o batch_str), data |-> r.data]

SensorStreamProcessBatch(data, data_batch) ==
    ProcessBatchOf("SensorStream", data, data_batch,
        <<"P", "r", "o", "c", "e", "s", "s", "i", "n", "g", " ", "s",
          "e", "n", "s", "o", "r", " ", "b", "a", "t", "c", "h", ":",
          " ">>,
        Str(<<"[", "E", "r", "r", "o", "r", "]", ":", " ", "t", "h", "e",
            " ", "v", "a", "l", "u", "e", "s", " ", "s", "h", "o", "u", "l",
            "d", " ", "b", "e", " ", "n", "u", "m", "b", "e", "r", "s">>))

TransactionStreamProcessBatch(data, data_batch) ==
    ProcessBatchOf("TransactionStream", data, data_batch,
        <<"P", "r", "o", "c", "e", "s", "s", "i", "n", "g", " ", "t",
          "r", "a", "n", "s", "a", "c", "t", "i", "o", "n", " ", "b",
          "a", "t", "c", "h", ":", " ">>,
        Str(<<"[", "E", "r", "r", "o", "r", "]", ":", " ", "t", "h", "e",
            " ", "v", "a", "l", "u", "e", "s", " ", "s", "h", "o", "u", "l",
            "d", " ", "b", "e", " ", "i", "n", "t", "e", "g", "e", "r",
            "s">>))

process_batch(cls, data, data_batch) ==
    IF cls = "SensorStream" THEN SensorStreamProcessBatch(data, data_batch)
    ELSE TransactionStreamProcessBatch(data, data_batch)

(* sum(len(i) for i in self.data.values()) *)
RECURSIVE Amount(_, _)
Amount(data, i) ==
    IF i > DictLen(data) THEN 0
    ELSE Len(data.items[i][2].l) + Amount(data, i + 1)

(* self.data.get(key, [0]) *)
GetOr0(data, key) ==
    IF HasKey(data, key) THEN GetItem(data, key).l ELSE <<PyInt(0)>>

SensorStreamGetStats(data) ==
    LET temps == GetOr0(data, s_temp)
        total == SumOf(temps, 1)
    IN  Dict(<< <<k_amount, PyInt(Amount(data, 1))>>,
                <<Str(<<"a", "v", "g">>),
                  PyFloat(total[1], total[2] * Len(temps))>> >>)

TransactionStreamGetStats(data) ==
    LET buys == GetOr0(data, k_buy)
        sells == GetOr0(data, k_sell)
    IN  Dict(<< <<k_amount, PyInt(Amount(data, 1))>>,
                <<Str(<<"f", "l", "o", "w">>),
                  PyInt(SumOf(buys, 1)[1] - SumOf(sells, 1)[1])>> >>)

get_stats(cls, data) ==
    IF cls = "SensorStream" THEN SensorStreamGetStats(data)
    ELSE TransactionStreamGetStats(data)

(* the items of the batches: readings, a value that is not a number, a     *)
(* field the class does not know, an item with two colons                  *)
BatchItems(cls) ==
    IF cls = "SensorStream"
    THEN {Str(<<"t", "e", "m", "p", ":", "1", ".", "5">>),
          Str(<<"h", "u", "m", "i", "d", "i", "t", "y", ":", "2">>),
          Str(<<"t", "e", "m", "p", ":", "x">>),
          Str(<<"w", "i", "n", "d", ":", "1">>),
          Str(<<"t", "e", "m", "p", ":", "1", ":", "2">>)}
    ELSE {Str(<<"b", "u", "y", ":", "3">>),
          Str(<<"s", "e", "l", "l", ":", "1">>),
          Str(<<"b", "u", "y", ":", "1", ".", "5">>),
          Str(<<"f", "e", "e", ":", "x">>), Str(<<"b", "u", "y">>)}

Batches(cls) ==
    {List(x) : x \in SeqsUpTo(BatchItems(cls), MaxBatch)}
    \cup {Str(<<"t", "e", "m", "p", ":", "1", ".", "5">>), None,
          List(<<Str(<<"b", "u", "y", ":", "3">>), PyInt(5)>>)}

(* stream = SensorStream(id) or TransactionStream(id) *)
NewStream ==
    \E cls \in StreamKinds :
        /\ stream' = [cls |-> cls, data |-> EmptyDict]
        /\ last' = [op |-> "new_stream", cls |-> cls]
        /\ UNCHANGED <<kind, stages, pipelines>>

(* stream.process_batch(data_batch), then stream.get_stats() *)
ProcessBatch ==
    /\ stream.cls \in StreamKinds
    /\ \E data_batch \in Batches(stream.cls) :
         LET r == process_batch(stream.cls, stream.data, data_batch)
         IN  /\ Amount(r.data, 1) <= MaxReadings
             /\ stream' = [stream EXCEPT !.data = r.data]
             /\ last' = [op |-> "process_batch", data_batch |-> data_batch,
                         before |-> stream.data, ret |-> r.ret,
                         stats_before |-> get_stats(stream.cls, stream.data),
                         stats |-> get_stats(stream.cls, r.data)]
             /\ UNCHANGED <<kind, stages, pipelines>>

(* one stream, constructed and then fed batches *)
NextStream == NewStream \/ ProcessBatch

SpecStream == Init /\ [][NextStream]_vars

---------------------------------------------------------------------------
(* What the properties below speak of *)

ITO == <<"Input", "Transform", "Output">>

(* the last call was adapter.process and it ran the stage list *)
RanStages == last.op = "process" /\ last.res.outcome = "return"
             /\ last.res.input # None

(* the value stage i of the last process call was given *)
StageInput(i) == IF i = 1 THEN last.res.input ELSE last.res.trace[i - 1]

(* stage i was given a value whose entry is missing or is not a mapping *)
StageFailed(i) == ~dict_follows_prototype(StageInput(i), EntryProto)

HasNoneOf(x, keys) == x.tag = "dict" => \A key \in keys : ~HasKey(x, key)

(* the error field the specification speaks of *)
k_error == Str(<<"e", "r", "r", "o", "r">>)

s_error_in_stage_1 ==
    Str(<<"e", "r", "r", "o", "r", " ", "i", "n", " ", "s", "t", "a", "g",
          "e", " ", "1">>)

(* a mapping with a sensor field of any value, a float value, a str unit *)
SensorShapedAnyName(entry) ==
    dict_follows_prototype(entry, << <<k_value, IsType("float")>>,
                                     <<k_unit, IsType("str")>> >>)
    /\ HasKey(entry, k_sensor)

(* str(value) followed by unit *)
Rendered(value, unit) == Str(PyStr(value).s \o unit.s)

---------------------------------------------------------------------------
C3_ProcessNeverRaises ==
    last.op = "process" =>
      /\ last.res.outcome = "return"
      /\ last.res.value.tag \in {"str", "none"}

(* C4: StreamAdapter.process of the empty list returns None with one       *)
(* diagnostic and calls no stage.                                          *)
C4_EmptyListRejected ==
    (last.op = "process" /\ kind = "StreamAdapter"
     /\ last.data = List(<<>>)) =>
      /\ last.res.outcome = "return"
      /\ last.res.value = None
      /\ last.res.diags = 1
      /\ last.res.trace = <<>>

(* C5: add_pipeline never raises; a value that is not a pipeline leaves    *)
(* the list unchanged with one diagnostic, a pipeline becomes the last     *)
(* element of the list.                                                    *)
C5_AddPipelineNeverRaises ==
    last.op = "add_pipeline" =>
      /\ last.res.outcome = "return"
      /\ IF IsPipeline(last.pipeline)
         THEN pipelines = Append(last.before, last.pipeline)
         ELSE pipelines = last.before /\ last.res.diags = 1

(* C6: process_data calls process on every registered pipeline once, in    *)
(* registration order, the first on the initial value and each next one on *)
(* the value the one before returned.                                      *)
C6_ProcessDataChains ==
    last.op = "process_data" =>
      LET calls == last.res.calls
      IN  /\ Len(calls) = Len(pipelines)
          /\ \A i \in 1..Len(calls) :
               /\ calls[i].pipeline = pipelines[i]
               /\ calls[i].data =
                    (IF i = 1 THEN last.data ELSE calls[i - 1].ret)

(* C7, as stated: JSONAdapter.process of a text that is not valid JSON, or *)
(* of a value that is not a str, returns None, prints one diagnostic and   *)
(* calls no stage.                                                         *)
C7_NonStringRejected ==
    (last.op = "process" /\ kind = "JSONAdapter"
     /\ (last.data.tag # "str" \/ JsonDecode(last.data.s).exc # "")) =>
      /\ last.res.outcome = "return"
      /\ last.res.value = None
      /\ last.res.diags = 1
      /\ last.res.trace = <<>>

(* C7, amended: JSONAdapter.process of a str that is not valid JSON, or of *)
(* a value that is neither a str nor a bytes object, returns None, prints  *)
(* one diagnostic and calls no stage, whatever stages are attached.        *)
C7_NonTextRejected ==
    (last.op = "process" /\ kind = "JSONAdapter"
     /\ \/ last.data.tag \notin {"str", "bytes"}
        \/ (last.data.tag = "str" /\ JsonDecode(last.data.s).exc # "")) =>
      /\ last.res.outcome = "return"
      /\ last.res.value = None
      /\ last.res.diags = 1
      /\ last.res.trace = <<>>
      /\ last.res.input = None

(* C7: a JSON adapter with three stages attached was given "not json"     *)
C7_Witness ==
    /\ last.op = "process" /\ kind = "JSONAdapter"
    /\ stages = ITO
    /\ last.data = t_not_json
    /\ last.res.value = None

(* C8, as stated: for an entry with a sensor field of any name, a float    *)
(* value and a str unit, the Output stage returns str(value) + unit, never *)
(* the empty string, and Input, Transform, Output return str(value)        *)
(* followed by the degree unit.                                            *)
C8_AnySensorRendered ==
    RanStages =>
      /\ \A i \in 1..Len(last.res.trace) :
           (/\ stages[i] = "Output"
            /\ ~StageFailed(i)
            /\ SensorShapedAnyName(GetItem(StageInput(i), k_entry))) =>
             LET entry == GetItem(StageInput(i), k_entry)
             IN  /\ last.res.trace[i] =
                      Rendered(GetItem(entry, k_value), GetItem(entry, k_unit))
                 /\ last.res.trace[i] # EmptyStr
      /\ (/\ stages = ITO
          /\ SensorShapedAnyName(GetItem(last.res.input, k_entry))) =>
           last.res.value =
             Rendered(GetItem(GetItem(last.res.input, k_entry), k_value),
                      s_degC)

(* C8, amended: for an entry whose sensor field is "temp", with a float    *)
(* value and a str unit, the Output stage returns str(value) + unit, never *)
(* the empty string, and Input, Transform, Output return str(value)        *)
(* followed by the degree unit.                                            *)
C8_TempSensorRendered ==
    RanStages =>
      /\ \A i \in 1..Len(last.res.trace) :
           (/\ stages[i] = "Output"
            /\ ~StageFailed(i)
            /\ dict_follows_prototype(GetItem(StageInput(i), k_entry),
                                      SensorProto)) =>
             LET entry == GetItem(StageInput(i), k_entry)
             IN  /\ last.res.trace[i] =
                      Rendered(GetItem(entry, k_value), GetItem(entry, k_unit))
                 /\ last.res.trace[i] # EmptyStr
      /\ (/\ stages = ITO
          /\ dict_follows_prototype(GetItem(last.res.input, k_entry),
                                    SensorProto)) =>
           last.res.value =
             Rendered(GetItem(GetItem(last.res.input, k_entry), k_value),
                      s_degC)

(* C8: the JSON adapter of test_json_adapter returned "23.5" and the       *)
(* degree unit                                                             *)
C8_Witness ==
    /\ RanStages /\ kind = "JSONAdapter"
    /\ stages = ITO
    /\ last.data = t_sensor
    /\ last.res.value = s_rendered

(* the mean of a list of numbers, as a float *)
MeanOf(l) == PyFloat(SumOf(l, 1)[1], SumOf(l, 1)[2] * Len(l))

IsNumber(x) == x.tag \in {"int", "float", "bool"}

(* C9: for a non-empty list of int and float samples, StreamAdapter with   *)
(* Input, Transform, Output builds the entry {sensor: temp, value: mean,   *)
(* unit: C}, which matches the sensor shape, and returns str(mean)         *)
(* followed by the degree unit.                                            *)
C9_StreamMeanRendered ==
    (/\ last.op = "process" /\ kind = "StreamAdapter" /\ stages = ITO
     /\ last.data.tag = "list" /\ Len(last.data.l) > 0
     /\ \A i \in 1..Len(last.data.l) : IsNumber(last.data.l[i])) =>
      /\ last.res.outcome = "return"
      /\ last.res.input.tag = "dict"
      /\ GetItem(last.res.input, k_entry) =
           Dict(<< <<k_sensor, s_temp>>,
                   <<k_value, MeanOf(last.data.l)>>,
                   <<k_unit, s_C>> >>)
      /\ dict_follows_prototype(GetItem(last.res.input, k_entry), SensorProto)
      /\ last.res.value = Rendered(MeanOf(last.data.l), s_degC)

(* C9: the list of ints [20, 20] gave "20.0" and the degree unit *)
C9_Witness ==
    /\ last.op = "process" /\ kind = "StreamAdapter" /\ stages = ITO
    /\ last.data = List(<<PyInt(20), PyInt(20)>>)
    /\ last.res.value = Str(<<"2", "0", ".", "0", "deg", "C">>)

(* C10: for a record whose entry is a mapping, TransformStage.process      *)
(* returns a record whose metadata.amount is the number of fields of       *)
(* entry and that is no error record; when entry is not sensor shaped,     *)
(* every field of the record but metadata is unchanged.                    *)
C10_TransformAttachesAmount ==
    (/\ last.op = "stage" /\ last.stage = "Transform"
     /\ dict_follows_prototype(last.data, EntryProto)) =>
      LET ret == last.res.ret
          entry == GetItem(last.data, k_entry)
      IN  /\ ret.tag = "dict"
          /\ HasKey(ret, k_metadata)
          /\ GetItem(ret, k_metadata) =
               Dict(<< <<k_amount, PyInt(DictLen(entry))>> >>)
          /\ ~HasKey(ret, k_error)
          /\ ~dict_follows_prototype(entry, SensorProto) =>
               /\ DictKeys(ret) = DictKeys(last.data) \cup {k_metadata}
               /\ \A key \in DictKeys(last.data) \ {k_metadata} :
                    GetItem(ret, key) = GetItem(last.data, key)

(* C10: TransformStage.process was given a record whose entry is a mapping *)
(* of one field that is no sensor reading                                  *)
C10_Witness ==
    /\ last.op = "stage" /\ last.stage = "Transform"
    /\ last.data.tag = "dict" /\ HasKey(last.data, k_entry)
    /\ GetItem(last.data, k_entry) = Dict(<< <<Str(<<"a">>), None>> >>)
    /\ HasKey(last.res.ret, k_metadata)
    /\ GetItem(GetItem(last.res.ret, k_metadata), k_amount) = PyInt(1)

(* the sum of the counts of a frequency table *)
RECURSIVE SumCounts(_, _)
SumCounts(entry, i) ==
    IF i > DictLen(entry) THEN 0
    ELSE entry.items[i][2].n + SumCounts(entry, i + 1)

(* the fields csv.reader makes of the first line of a text, read alone *)
FirstLineFields(text) == CsvRows(<<SplitLines(text.s, 1, <<>>)[1]>>)[1]

(* C11: for a non-empty str, CSVAdapter.process builds an entry whose keys *)
(* are the fields of the first line, each with the number of times it      *)
(* occurs among them, the counts summing to the number of fields: no later *)
(* line contributes a key or a count.                                      *)
C11_FirstLineOnly ==
    (/\ last.op = "process" /\ kind = "CSVAdapter"
     /\ last.data.tag = "str" /\ Len(last.data.s) > 0) =>
      /\ last.res.outcome = "return"
      /\ LET row == FirstLineFields(last.data)
             entry == GetItem(last.res.input, k_entry)
         IN  /\ \A i \in 1..Len(row) : HasKey(entry, row[i])
             /\ \A key \in DictKeys(entry) :
                  GetItem(entry, key).n =
                    Cardinality({i \in 1..Len(row) : row[i] = key})
             /\ SumCounts(entry, 1) = Len(row)

(* the keys of a shape *)
ProtoKeys(proto) == {proto[i][1] : i \in 1..Len(proto)}

(* C12: when dict_follows_prototype returns true for a value and a shape,  *)
(* it returns true again after keys that are not in the shape are added to *)
(* the value; it returns false when the value is not a mapping or lacks a  *)
(* key of the shape.                                                       *)
C12_ExtraFieldsKeepMatch ==
    last.op = "shape" =>
      /\ last.res => last.resMore
      /\ last.var.tag # "dict" => ~last.res
      /\ (/\ last.var.tag = "dict"
          /\ \E key \in ProtoKeys(last.proto) : ~HasKey(last.var, key))
           => ~last.res

(* C12: a value matches the sensor shape and matches it again after a      *)
(* field outside the shape has been added to it.                           *)
C12_Witness ==
    /\ last.op = "shape"
    /\ last.proto = SensorProto
    /\ last.res /\ last.resMore
    /\ DictLen(last.more) > DictLen(last.var)

(* a step is add_stage(stage) and appends stage to the stage list, or is   *)
(* process and leaves the stage list as it was                             *)
StageListStep ==
    \/ last'.op = "add_stage" /\ stages' = Append(stages, last'.stage)
    \/ last'.op = "process" /\ stages' = stages

(* the process call that reached the stage loop gave stage i the value     *)
(* stage i - 1 returned, for every stage attached, and rendered the last   *)
StagesAppliedInOrder ==
    RanStages =>
      /\ Len(last.res.trace) = Len(stages)
      /\ \A i \in 1..Len(stages) :
           last.res.trace[i] = StageProcess(stages[i], StageInput(i)).ret
      /\ last.res.value = PyStr(StageInput(Len(stages) + 1))

(* C13: over any interleaving of add_stage and process on one adapter the  *)
(* stage list grows only by add_stage appending its argument (nothing is   *)
(* removed, reordered or replaced, process leaves the list alone), and a   *)
(* process call applies the attached stages in list order, each on the     *)
(* value returned by the stage before it.                                  *)
C13_AppendOnlyInOrder == [][StageListStep]_vars /\ []StagesAppliedInOrder

(* C13: process ran three attached stages, after three add_stage calls,    *)
(* and the first stage returned a value other than the one it was given.   *)
C13_Witness ==
    /\ RanStages
    /\ stages = ITO
    /\ Len(last.res.trace) = 3
    /\ last.res.trace[1] # last.res.input
    /\ last.res.trace[2] # last.res.trace[1]

(* C14: for each processor, when validate(data) is true, process(data)    *)
(* followed by format_output on its result returns a string and does not   *)
(* raise (the empty list and log lines of any colon count included).       *)
C14_ValidateGuards ==
    (last.op = "get_processing_result" /\ last.res.valid) =>
      /\ last.res.res.outcome = "return"
      /\ last.res.res.value.tag = "str"

(* C15: when process_batch of a sensor or transaction stream returns a    *)
(* string starting with "[Error]", the stream's data, and so get_stats,    *)
(* is what it was before the call, whatever items came before the bad one. *)
C15_ErrorLeavesDataUnchanged ==
    (/\ last.op = "process_batch"
     /\ StartsWith(last.ret.s, <<"[", "E", "r", "r", "o", "r", "]">>)) =>
      /\ stream.data = last.before
      /\ last.stats = last.stats_before

=============================================================================
